---- MODULE Spec2Model ----
(***************************************************************************)
(* Model of scripts/mca_scraper.py: the CSLMCAScraper extraction run       *)
(* (driver lifecycle, cookie session, authentication check, card           *)
(* extraction, validation, persistence) as a state machine.                *)
(*                                                                         *)
(* Text is modelled as a sequence of one-character strings, so that        *)
(* strip(), split(), replace() and float() are computed, not assumed.      *)
(* Amounts are exact decimals [n, d] meaning n / d with d a power of ten.  *)
(***************************************************************************)
EXTENDS Integers, Sequences, FiniteSets, TLC

(***************************************************************************)
(* Bounds of the model.                                                    *)
(***************************************************************************)
MaxCards == 2
MaxSaves == 2
MaxCookies == 2
MaxTextLen == 3
MaxRetries == 4
MaxDelay == 2
MaxTotal == 110
MaxPageSize == 53

(***************************************************************************)
(* Text helpers (Python str methods used by the scraper).                  *)
(***************************************************************************)
Digits == {"0", "1", "2", "3", "4", "5", "6", "7", "8", "9"}
Whitespace == {" "}

DigitVal(c) ==
    CASE c = "0" -> 0 [] c = "1" -> 1 [] c = "2" -> 2 [] c = "3" -> 3
      [] c = "4" -> 4 [] c = "5" -> 5 [] c = "6" -> 6 [] c = "7" -> 7
      [] c = "8" -> 8 [] c = "9" -> 9

\* str.strip(): leading and trailing whitespace removed.
RECURSIVE LStrip(_)
LStrip(s) == IF s # <<>> /\ Head(s) \in Whitespace THEN LStrip(Tail(s)) ELSE s

RECURSIVE RStrip(_)
RStrip(s) ==
    IF s # <<>> /\ s[Len(s)] \in Whitespace
    THEN RStrip(SubSeq(s, 1, Len(s) - 1))
    ELSE s

Strip(s) == RStrip(LStrip(s))

\* str.replace(c, ''): every occurrence of the character c removed.
RemoveChar(s, c) == SelectSeq(s, LAMBDA x : x # c)

\* s starts with the text p.
StartsWith(s, p) == Len(s) >= Len(p) /\ SubSeq(s, 1, Len(p)) = p

\* str.split(sep): the list of pieces between the occurrences of sep.
RECURSIVE SplitFrom(_, _, _)
SplitFrom(s, sep, cur) ==
    IF s = <<>> THEN <<cur>>
    ELSE IF StartsWith(s, sep)
         THEN <<cur>> \o SplitFrom(SubSeq(s, Len(sep) + 1, Len(s)), sep, <<>>)
         ELSE SplitFrom(Tail(s), sep, Append(cur, Head(s)))

Split(s, sep) == SplitFrom(s, sep, <<>>)

(***************************************************************************)
(* float(text): Python's float() on the characters of the model's          *)
(* alphabet.  Surrounding whitespace is ignored, one leading sign is       *)
(* allowed, then digits with at most one decimal point and at least one    *)
(* digit.  Anything else raises ValueError (ok = FALSE).                   *)
(***************************************************************************)
RECURSIVE DigitsValue(_, _)
DigitsValue(s, acc) ==
    IF s = <<>> THEN acc ELSE DigitsValue(Tail(s), acc * 10 + DigitVal(Head(s)))

RECURSIVE Pow10(_)
Pow10(k) == IF k = 0 THEN 1 ELSE 10 * Pow10(k - 1)

\* n / d with trailing decimal zeros dropped, so equal amounts are equal values.
RECURSIVE Normalize(_, _)
Normalize(n, d) ==
    IF d > 1 /\ n % 10 = 0 THEN Normalize(n \div 10, d \div 10) ELSE [n |-> n, d |-> d]

Zero == [n |-> 0, d |-> 1]

IsUnsignedDecimal(s) ==
    /\ \A i \in 1..Len(s) : s[i] \in Digits \cup {"."}
    /\ Cardinality({i \in 1..Len(s) : s[i] = "."}) <= 1
    /\ \E i \in 1..Len(s) : s[i] \in Digits

UnsignedValue(s) ==
    LET dots == {i \in 1..Len(s) : s[i] = "."}
        frac == IF dots = {} THEN 0 ELSE Len(s) - (CHOOSE i \in dots : TRUE)
    IN  Normalize(DigitsValue(RemoveChar(s, "."), 0), Pow10(frac))

ParseFloat(text) ==
    LET t    == Strip(text)
        sgn  == t # <<>> /\ Head(t) \in {"-", "+"}
        body == IF sgn THEN Tail(t) ELSE t
        neg  == sgn /\ Head(t) = "-"
    IN  IF IsUnsignedDecimal(body)
        THEN LET v == UnsignedValue(body)
             IN  [ok |-> TRUE, val |-> [n |-> IF neg THEN 0 - v.n ELSE v.n, d |-> v.d]]
        ELSE [ok |-> FALSE, val |-> Zero]

(***************************************************************************)
(* Page markup.  A card is what BeautifulSoup finds in one div.app-card:   *)
(* the customer span and its link, the left column, and for each label     *)
(* (<b>Label:</b>) the node that follows it.  The node after a label is    *)
(* missing (next_sibling is None), a text node, or another tag.            *)
(***************************************************************************)
NoLabel == [kind |-> "nolabel", text |-> <<>>]
NoSibling == [kind |-> "none", text |-> <<>>]
TagNode == [kind |-> "tag", text |-> <<>>]
TextNode(t) == [kind |-> "text", text |-> t]

\* `if x:` on the node after a label: None and the empty text node are falsy.
Truthy(node) == node.kind = "tag" \/ (node.kind = "text" /\ node.text # <<>>)

\* node.strip(): a text node strips; a Tag has no strip(), the call raises
\* TypeError, which the `except ValueError` clauses do not catch.
StripRaises(node) == node.kind = "tag"

\* Lines 406-412, 415-421: free text after a label ("" when the label is
\* absent, falsy when nothing follows it).
LabelText(node) ==
    IF Truthy(node)
    THEN [raised |-> StripRaises(node), val |-> Strip(node.text)]
    ELSE [raised |-> FALSE, val |-> <<>>]

\* Lines 436-445, 448-457: float(text.strip().replace(',', '')), 0.0 kept on
\* ValueError.
PlainAmount(node) ==
    IF Truthy(node)
    THEN LET r == ParseFloat(RemoveChar(Strip(node.text), ","))
         IN  [raised |-> StripRaises(node), ok |-> r.ok, val |-> r.val]
    ELSE [raised |-> FALSE, ok |-> FALSE, val |-> Zero]

\* Lines 460-471, 488-495: the part before the first "(" with commas removed.
ParenAmount(node) ==
    IF Truthy(node)
    THEN LET r == ParseFloat(RemoveChar(Split(Strip(node.text), <<"(">>)[1], ","))
         IN  [raised |-> StripRaises(node), ok |-> r.ok, val |-> r.val]
    ELSE [raised |-> FALSE, ok |-> FALSE, val |-> Zero]

Positive(v) == v.n > 0

\* Lines 483-498: "Current Balance:" first; "RTR Balance:" is consulted only
\* while the balance found so far is not positive.
BalanceAmount(current, rtr) ==
    LET a  == ParenAmount(current)
        v1 == IF a.ok THEN a.val ELSE Zero
        b  == ParenAmount(rtr)
    IN  IF a.raised THEN [raised |-> TRUE, val |-> Zero]
        ELSE IF Positive(v1) THEN [raised |-> FALSE, val |-> v1]
        ELSE IF b.raised THEN [raised |-> TRUE, val |-> Zero]
        ELSE [raised |-> FALSE, val |-> IF b.ok THEN b.val ELSE v1]

LinkSeparator == <<" ", "#", " ">>

\* Lines 380-395: the pieces of the customer link text around " # ".
DealParts(card) == Split(Strip(card.link), LinkSeparator)

\* Lines 380-400: the card is passed over without a record and without an
\* error (the `continue` statements).
CardSkipped(card) ==
    \/ card.customer # "link"
    \/ Len(DealParts(card)) # 2
    \/ ~card.left

\* Line 588: f"{deal_type}_{deal_id}".
MakeDealId(deal_type, number) == deal_type \o <<"_">> \o number

\* Lines 377-614: one iteration of the card loop.  deal is the list of
\* records appended (none or one); error says the per-card handler ran.
\* Line 610 reads deal.business_name, which Deal does not define, so the
\* handler runs after every append.
ExtractCard(card) ==
    IF CardSkipped(card) THEN [deal |-> <<>>, error |-> FALSE]
    ELSE
      LET deal_type == Strip(DealParts(card)[1])
          number    == Strip(DealParts(card)[2])
          dba       == LabelText(card.dba)
          owner     == LabelText(card.owner)
          purchase  == PlainAmount(card.purchase)
          principal == PlainAmount(card.principal)
          recv      == ParenAmount(card.receivables)
          balance   == BalanceAmount(card.current_balance, card.rtr_balance)
          raised    == \/ dba.raised \/ owner.raised \/ purchase.raised
                       \/ principal.raised \/ recv.raised \/ balance.raised
      IN  IF raised THEN [deal |-> <<>>, error |-> TRUE]
          ELSE IF number # <<>> /\ dba.val # <<>>
          THEN [deal |-> << [deal_id |-> MakeDealId(deal_type, number),
                             dba |-> dba.val,
                             owner |-> owner.val,
                             deal_type |-> deal_type,
                             purchase_price |-> IF purchase.ok THEN purchase.val ELSE Zero,
                             principal_amount |-> IF principal.ok THEN principal.val ELSE Zero,
                             receivables_purchased_amount |-> IF recv.ok THEN recv.val ELSE Zero,
                             current_balance |-> balance.val] >>,
                error |-> TRUE]
          ELSE [deal |-> <<>>, error |-> FALSE]

\* Lines 377-616: the loop over the cards of the page, in page order.
RECURSIVE ExtractCards(_)
ExtractCards(cards) ==
    IF cards = <<>> THEN <<>>
    ELSE ExtractCard(Head(cards)).deal \o ExtractCards(Tail(cards))

RECURSIVE CardErrors(_)
CardErrors(cards) ==
    IF cards = <<>> THEN 0
    ELSE (IF ExtractCard(Head(cards)).error THEN 1 ELSE 0) + CardErrors(Tail(cards))

(***************************************************************************)
(* Validation (lines 624-630).                                             *)
(***************************************************************************)
\* Variant: a deal is rejected unless both amounts are positive.
validate_needs_both_amounts(deal) ==
    IF deal.deal_id = <<>> \/ deal.dba = <<>> THEN FALSE
    ELSE IF ~Positive(deal.purchase_price) \/ ~Positive(deal.principal_amount) THEN FALSE
    ELSE TRUE

validate_deal_data(deal) ==
    IF deal.deal_id = <<>> \/ deal.dba = <<>> THEN FALSE
    ELSE IF ~Positive(deal.purchase_price) /\ ~Positive(deal.principal_amount) THEN FALSE
    ELSE TRUE

\* Line 635: the records that pass validation, in order.
ValidDeals(deals) == SelectSeq(deals, validate_deal_data)

(***************************************************************************)
(* Inputs of the model: sample texts and the cards built from them.        *)
(***************************************************************************)
TxtMCA1 == <<"M", "C", "A", " ", "#", " ", "1">>
TxtLOAN2 == <<"L", "O", "A", "N", " ", "#", " ", "2">>
TxtNoSep == <<"M", "C", "A", " ", "1">>
TxtName == <<"A", "c", "m", "e">>
Txt500 == <<"5", "0", "0">>
TxtZero == <<"0">>
TxtMinus5 == <<"-", "5">>
TxtDollar == <<"$", "4", "0", "0", ",", "0", "0", "0", ".", "0", "0">>
TxtParen == <<"1", ",", "2", "3", "4", " ", "(", "1", ".", "3", "0", ")">>

BaseCard ==
    [customer |-> "link", link |-> TxtMCA1, left |-> TRUE,
     dba |-> TextNode(TxtName), owner |-> NoLabel,
     purchase |-> TextNode(Txt500), principal |-> NoLabel,
     receivables |-> NoLabel, current_balance |-> NoLabel, rtr_balance |-> NoLabel]

LoanCard ==
    [BaseCard EXCEPT !.link = TxtLOAN2, !.purchase = NoLabel,
                     !.principal = TextNode(Txt500)]

Cards ==
    { BaseCard, LoanCard,
      [BaseCard EXCEPT !.customer = "nolink"],
      [BaseCard EXCEPT !.link = TxtNoSep],
      [BaseCard EXCEPT !.dba = NoLabel],
      [BaseCard EXCEPT !.purchase = TextNode(TxtZero)],
      [LoanCard EXCEPT !.owner = TagNode],
      [BaseCard EXCEPT !.purchase = TextNode(TxtDollar),
                       !.receivables = TextNode(TxtParen)] }

RECURSIVE SeqsUpTo(_, _)
SeqsUpTo(S, k) ==
    IF k = 0 THEN {<<>>}
    ELSE LET shorter == SeqsUpTo(S, k - 1)
         IN  shorter \cup {Append(q, x) : q \in {r \in shorter : Len(r) = k - 1}, x \in S}

\* What the listing shows: the cards of the first parse, the state of the
\* paginator's "All" control, and the cards after a click on it.
Pages == {[first |-> c, button |-> "absent", all |-> c] : c \in SeqsUpTo(Cards, MaxCards)}

\* Line 51: the deal types the Deal record names.
DealTypes == {<<"M", "C", "A">>, <<"L", "O", "A", "N">>,
              <<"M", "O", "R", "T", "G", "A", "G", "E">>}

TxtFOO7 == <<"F", "O", "O", " ", "#", " ", "7">>
TxtMCAx == <<"M", "C", "A", " ", "#", " ", "x">>

\* A wider choice of cards for the listing taken on its own.
ListingCards ==
    Cards \cup
    { [BaseCard EXCEPT !.link = TxtFOO7],
      [BaseCard EXCEPT !.link = TxtMCAx],
      [BaseCard EXCEPT !.customer = "nospan"],
      [BaseCard EXCEPT !.left = FALSE],
      [BaseCard EXCEPT !.purchase = TextNode(TxtMinus5)],
      [BaseCard EXCEPT !.purchase = TextNode(TxtMinus5), !.principal = TextNode(Txt500)],
      [LoanCard EXCEPT !.current_balance = TextNode(TxtMinus5)],
      [LoanCard EXCEPT !.receivables = TextNode(TxtMinus5)] }

RECURSIVE Repeat(_, _)
Repeat(card, n) == IF n = 0 THEN <<>> ELSE Append(Repeat(card, n - 1), card)

\* Listings of a few cards, and listings whose first parse finds 24 or 25
\* cards while the site holds one more behind the "All" control.
ListingPages ==
    {[first |-> c, button |-> "absent", all |-> c] : c \in SeqsUpTo(ListingCards, MaxCards)}
    \cup
    {[first |-> Repeat(BaseCard, n), button |-> b,
      all |-> Append(Repeat(BaseCard, n), LoanCard)] :
        n \in {24, 25}, b \in {"absent", "fails", "ok"}}

(***************************************************************************)
(* The backend store (table mca_deals), as the number of rows per deal_id. *)
(***************************************************************************)
RECURSIVE SumCounts(_, _)
SumCounts(st, ids) ==
    IF ids = {} THEN 0
    ELSE LET id == CHOOSE x \in ids : TRUE
         IN  st[id] + SumCounts(st, ids \ {id})

RowCount(st) == SumCounts(st, DOMAIN st)

PayloadIds(data) == {data[i].deal_id : i \in 1..Len(data)}

\* Lines 675-678: upsert(deals_data, on_conflict='deal_id'): a row whose
\* deal_id is already stored is updated, any other is added once.
UpsertRows(st, data) ==
    [id \in DOMAIN st \cup PayloadIds(data) |-> IF id \in DOMAIN st THEN st[id] ELSE 1]

\* Line 698: insert(deals_data): every row of the payload is added.
InsertRows(st, data) ==
    [id \in DOMAIN st \cup PayloadIds(data) |->
        (IF id \in DOMAIN st THEN st[id] ELSE 0)
        + Cardinality({i \in 1..Len(data) : data[i].deal_id = id})]

\* Lines 644-670: the row written for a deal.
DealDict(deal) ==
    [deal_id |-> deal.deal_id, dba |-> deal.dba, owner |-> deal.owner,
     deal_type |-> deal.deal_type, purchase_price |-> deal.purchase_price,
     principal_amount |-> deal.principal_amount,
     receivables_purchased_amount |-> deal.receivables_purchased_amount,
     current_balance |-> deal.current_balance]

\* Lines 642-671: deals_data, one row per valid deal.
DealsData(valid_deals) == [i \in 1..Len(valid_deals) |-> DealDict(valid_deals[i])]

\* Lines 712-719: the recovery file reads deal.business_name and deal.amount,
\* which Deal (lines 45-72) does not define: building its content raises
\* AttributeError as soon as there is one deal to write.
BackupRaises(valid_deals) == valid_deals # <<>>

(***************************************************************************)
(* Authentication check (lines 222-230).  A URL or a page source is        *)
(* modelled by the set of words it contains.                               *)
(***************************************************************************)
auth_indicators == {"dashboard", "portfolio", "cashadvance", "logout"}

LowerWord(w) ==
    CASE w = "Logout" -> "logout"
      [] w = "Dashboard" -> "dashboard"
      [] w = "Login" -> "login"
      [] OTHER -> w

Lower(words) == {LowerWord(w) : w \in words}

is_authenticated(current_url, page_source) ==
    \E indicator \in auth_indicators :
        indicator \in Lower(current_url) \/ indicator \in Lower(page_source)

Urls == {{"login"}, {"cashadvance"}}
Sources == {{"Login"}, {"Logout"}, {}}

\* Variant: the screenshot is taken without looking at screenshot_on_error.
save_debug_info_always_shot(cfg, prefix, session, stamp, htmlOk, pngOk) ==
    LET name == [prefix |-> prefix, session |-> session, timestamp |-> stamp]
    IN  (IF cfg.save_html_on_error
         THEN << [name |-> name, ext |-> "html",
                  content |-> IF htmlOk THEN "markup" ELSE "empty"] >>
         ELSE <<>>)
        \o (IF (cfg.save_html_on_error => htmlOk) /\ pngOk
            THEN << [name |-> name, ext |-> "png", content |-> "image"] >>
            ELSE <<>>)

\* Lines 249-269: the files save_debug_info leaves in the debug directory.
\* The markup file is opened before page_source is read, so a failing read
\* leaves it empty and skips the screenshot.
save_debug_info(cfg, prefix, session, stamp, htmlOk, pngOk) ==
    LET name == [prefix |-> prefix, session |-> session, timestamp |-> stamp]
        html == IF cfg.save_html_on_error
                THEN << [name |-> name, ext |-> "html",
                         content |-> IF htmlOk THEN "markup" ELSE "empty"] >>
                ELSE <<>>
        png  == IF /\ cfg.screenshot_on_error
                   /\ (cfg.save_html_on_error => htmlOk)
                   /\ pngOk
                THEN << [name |-> name, ext |-> "png", content |-> "image"] >>
                ELSE <<>>
    IN  html \o png

\* Lines 268-269: the warning logged when a capture step raised.
debug_warning(cfg, htmlOk, pngOk) ==
    IF \/ cfg.save_html_on_error /\ ~htmlOk
       \/ cfg.screenshot_on_error /\ (cfg.save_html_on_error => htmlOk) /\ ~pngOk
    THEN <<"debug_warning">>
    ELSE <<>>

(***************************************************************************)
(* State of one process (main -> run_daily_extraction) and of what         *)
(* outlives it (the store).                                                *)
(***************************************************************************)
VARIABLES
    pc,           \* where the process is
    config,       \* ScrapingConfig
    driver,       \* self.driver: "none" or "live"
    quitCalls,    \* calls of driver.quit() in this run
    error,        \* the exception propagating, or "none"
    calls,        \* what the run has done so far, in order
    debug,        \* files written to the debug directory in this run
    cookies,      \* the blob, the decoded session, the cookies offered and applied
    deals,        \* the list returned by extract_deals_data
    cardErrors,   \* times the per-card handler ran in this run
    store,        \* rows of mca_deals per deal_id
    payloads,     \* what this run handed to the store, in order
    backup,       \* the local recovery file of this run
    exit_status,  \* exit status of the process, -1 while it runs
    saves,        \* history: the saves that reached the store
    page,         \* the listing the browser showed to extract_deals_data
    arg,          \* input of the function applied on its own
    result        \* and what it returned

vars == <<pc, config, driver, quitCalls, error, calls, debug, cookies, deals,
          cardErrors, store, payloads, backup, exit_status, saves, page, arg, result>>

pure == <<arg, result>>

NoBackup == [exists |-> FALSE, content |-> <<>>]
NoPage == [first |-> <<>>, button |-> "absent", all |-> <<>>]
NoCookies == [blob |-> "none", session |-> <<>>, offered |-> <<>>, jar |-> <<>>, applied |-> 0]
DefaultConfig == [screenshot_on_error |-> TRUE, save_html_on_error |-> TRUE]
EmptyStore == [id \in {} |-> 0]

\* What the table may hold before the run.
InitialStores == {EmptyStore, [id \in {MakeDealId(<<"M", "C", "A">>, <<"1">>)} |-> 1]}

\* Line 81: the session id, the time the scraper was built.
session_id == "20261102_120000"

Init ==
    /\ pc = "main"
    /\ config = DefaultConfig
    /\ driver = "none"
    /\ quitCalls = 0
    /\ error = "none"
    /\ calls = <<>>
    /\ debug = <<>>
    /\ cookies = NoCookies
    /\ deals = <<>>
    /\ cardErrors = 0
    /\ store \in InitialStores
    /\ payloads = <<>>
    /\ backup = NoBackup
    /\ exit_status = -1
    /\ saves = <<>>
    /\ page = NoPage
    /\ arg = "none"
    /\ result = "none"

Now == Len(calls)

\* Lines 754-764 and 75-85: main() builds the configuration and the scraper.
\* get_supabase_client (supabase_client.py) raises ValueError when the
\* credentials are missing; main() does not catch it and the process dies.
Main ==
    /\ pc = "main"
    /\ \E shot \in BOOLEAN, html \in BOOLEAN :
           config' = [screenshot_on_error |-> shot, save_html_on_error |-> html]
    /\ \E credentials \in BOOLEAN :
         /\ pc' = IF credentials THEN "setup_driver" ELSE "exited"
         /\ error' = IF credentials THEN "none" ELSE "ValueError"
         /\ exit_status' = IF credentials THEN -1 ELSE 1
    /\ UNCHANGED <<page, pure, driver, quitCalls, calls, debug, cookies, deals,
                   cardErrors, store, payloads, backup, saves>>

\* Lines 115-174 under driver_context (104-105): Chrome() fails and no
\* driver exists, or the driver exists and its configuration fails, or the
\* driver is ready.
setup_driver ==
    /\ pc = "setup_driver"
    /\ \E outcome \in {"chrome_fails", "configure_fails", "ok"} :
         /\ driver' = IF outcome = "chrome_fails" THEN "none" ELSE "live"
         /\ error' = IF outcome = "ok" THEN "none" ELSE "WebDriverException"
         /\ pc' = IF outcome = "ok" THEN "load_cookies" ELSE "driver_exit"
         /\ calls' = Append(calls, "setup_driver")
    /\ UNCHANGED <<page, pure, config, quitCalls, debug, cookies, deals, cardErrors, store,
                   payloads, backup, exit_status, saves>>

\* The cookie lists a session blob can decode to.
Sessions == {[i \in 1..k |-> i] : k \in 0..MaxCookies}

\* Variant: the run goes on to the verification whatever was returned.
AfterCookiesIgnored(ok) == "verify"

\* Lines 730-731: the run goes on only when load_cookies_from_secret
\* returned True.
AfterCookies(ok) == IF ok THEN "verify" ELSE "driver_exit"

\* Variant: the loop over the cookies ends at the first rejected cookie.
AfterRejectionStop(session, i) == Len(session) + 1

\* Lines 201-206: the handler of a rejected cookie logs a warning and the
\* loop goes on with the next cookie.
AfterRejection(session, i) == i + 1

\* Lines 199-206: the loop over the cookies from the i-th on; accepts are
\* the positions of the cookies the driver takes.  offered are the cookies
\* passed to add_cookie, jar those the browser holds, applied the counter.
RECURSIVE add_cookies(_, _, _, _)
add_cookies(session, accepts, i, done) ==
    IF i > Len(session) THEN done
    ELSE IF i \in accepts
    THEN add_cookies(session, accepts, i + 1,
                     [offered |-> Append(done.offered, session[i]),
                      jar |-> Append(done.jar, session[i]),
                      applied |-> done.applied + 1])
    ELSE add_cookies(session, accepts, AfterRejection(session, i),
                     [offered |-> Append(done.offered, session[i]),
                      jar |-> done.jar,
                      applied |-> done.applied])

NothingApplied == [offered |-> <<>>, jar |-> <<>>, applied |-> 0]

\* Lines 183-190: the ways the blob does not give a cookie list: the
\* variable is not set, b64decode raises, or pickle.loads raises on bytes
\* that end too early.
BadBlobs == {"missing", "malformed", "truncated"}

\* Lines 176-212 and 730-731: the blob is missing, or does not decode, or
\* decodes to a cookie list; then the domain is opened and every cookie is
\* offered to the driver, which may reject any of them.
load_cookies_from_secret ==
    /\ pc = "load_cookies"
    /\ \/ \E blob \in BadBlobs :
            /\ calls' = Append(calls, "load_cookies_fail")
            /\ cookies' = [NoCookies EXCEPT !.blob = blob]
            /\ pc' = AfterCookies(FALSE)
       \/ \E session \in Sessions :
            /\ calls' = calls \o <<"get_home", "load_cookies_fail">>
            /\ cookies' = [NoCookies EXCEPT !.blob = "decoded", !.session = session]
            /\ pc' = AfterCookies(FALSE)
       \/ \E session \in Sessions : \E accepts \in SUBSET (1..Len(session)) :
            LET done == add_cookies(session, accepts, 1, NothingApplied)
            IN  /\ calls' = calls \o <<"get_home", "load_cookies_ok">>
                /\ cookies' = [blob |-> "decoded", session |-> session,
                               offered |-> done.offered, jar |-> done.jar,
                               applied |-> done.applied]
                /\ pc' = AfterCookies(TRUE)
    /\ error' = IF pc' = "driver_exit" THEN "CookieLoadFailed" ELSE "none"
    /\ UNCHANGED <<page, pure, config, driver, quitCalls, debug, deals, cardErrors, store,
                   payloads, backup, exit_status, saves>>

\* Variant: the result of verify_authentication is not looked at.
AfterVerifyIgnored(ok) == "accept_terms"

\* Lines 734-735: the run goes on only when verify_authentication returned
\* True.
AfterVerify(ok) == IF ok THEN "accept_terms" ELSE "driver_exit"

\* Lines 214-247 and 734-735: the protected page is opened; an exception is
\* caught and reported as failure, with debug files; otherwise the URL and
\* the lowered page source are searched for an indicator.
verify_authentication ==
    /\ pc = "verify"
    /\ \/ \E htmlOk \in BOOLEAN, pngOk \in BOOLEAN :
            /\ calls' = calls \o <<"get_list", "verify_error">>
                         \o debug_warning(config, htmlOk, pngOk)
            /\ debug' = debug \o save_debug_info(config, "auth_error", session_id, Now,
                                                 htmlOk, pngOk)
            /\ pc' = AfterVerify(FALSE)
       \/ \E url \in Urls, source \in Sources :
            IF is_authenticated(url, source)
            THEN /\ calls' = calls \o <<"get_list", "verify_ok">>
                 /\ debug' = debug
                 /\ pc' = AfterVerify(TRUE)
            ELSE \E htmlOk \in BOOLEAN, pngOk \in BOOLEAN :
                 /\ calls' = calls \o <<"get_list", "verify_fail">>
                              \o debug_warning(config, htmlOk, pngOk)
                 /\ debug' = debug \o save_debug_info(config, "auth_failure", session_id, Now,
                                                      htmlOk, pngOk)
                 /\ pc' = AfterVerify(FALSE)
    /\ error' = IF pc' = "driver_exit" THEN "AuthenticationFailed" ELSE "none"
    /\ UNCHANGED <<page, pure, config, driver, quitCalls, cookies, deals, cardErrors, store,
                   payloads, backup, exit_status, saves>>

\* Lines 283-322 and 738: every failure inside is swallowed.
accept_terms_if_prompted ==
    /\ pc = "accept_terms"
    /\ pc' = "extract"
    /\ calls' = Append(calls, "accept_terms")
    /\ UNCHANGED <<page, pure, config, driver, quitCalls, error, debug, cookies, deals,
                   cardErrors, store, payloads, backup, exit_status, saves>>

LoadAllTrigger == 25

\* Lines 355-376: the cards that are parsed: those of the first parse, or,
\* when exactly 25 were found and the click on "All" works, those after it.
CardsToParse(shown) ==
    IF Len(shown.first) = LoadAllTrigger /\ shown.button = "ok" THEN shown.all ELSE shown.first

\* Lines 360-375: the search for the "All" control and the click on it,
\* made only when the first parse found exactly 25 cards.
LoadAllCalls(shown) ==
    IF Len(shown.first) # LoadAllTrigger THEN <<>>
    ELSE IF shown.button = "absent" THEN <<"find_all">>
    ELSE <<"find_all", "click_all">>

\* What the site shows when the listing is opened.
PagesShown == IF page = NoPage THEN Pages ELSE {page}

\* Lines 743-748: deals are saved only when the list is not empty.
AfterExtract(ds) == IF ds # <<>> THEN "save" ELSE "driver_exit"

\* Lines 324-622 and 741-748: navigation or the read of the page raises
\* (caught, debug files, empty list), or no card shows up before the
\* timeout (empty list), or the cards of the page are parsed.
extract_deals_data ==
    /\ pc = "extract"
    /\ \/ \E htmlOk \in BOOLEAN, pngOk \in BOOLEAN :
            /\ page' = NoPage
            /\ deals' = <<>>
            /\ cardErrors' = 0
            /\ calls' = calls \o <<"get_all", "extract">>
                         \o debug_warning(config, htmlOk, pngOk)
            /\ debug' = debug \o save_debug_info(config, "extraction_error", session_id, Now,
                                                 htmlOk, pngOk)
       \/ /\ page' = NoPage
          /\ deals' = <<>>
          /\ cardErrors' = 0
          /\ calls' = calls \o <<"get_all", "extract", "wait_timeout">>
          /\ debug' = debug
       \/ \E shown \in PagesShown :
            /\ page' = shown
            /\ deals' = ExtractCards(CardsToParse(shown))
            /\ cardErrors' = CardErrors(CardsToParse(shown))
            /\ calls' = calls \o <<"get_all", "extract">> \o LoadAllCalls(shown)
            /\ debug' = debug
    /\ pc' = AfterExtract(deals')
    /\ UNCHANGED <<pure, config, driver, quitCalls, error, cookies, store, payloads,
                   backup, exit_status, saves>>

\* Variant: the rows are built from every extracted deal.
RowsToWriteUnfiltered(ds) == DealsData(ds)

\* Lines 635-671: the rows handed to the store: one per deal that passes
\* validation.
RowsToWrite(ds) == DealsData(ValidDeals(ds))

\* Lines 712-719: the content of the recovery file.
BackupContent(valid_deals) ==
    [i \in 1..Len(valid_deals) |->
        [deal_id |-> valid_deals[i].deal_id, deal_type |-> valid_deals[i].deal_type,
         owner |-> valid_deals[i].owner]]

\* Lines 704-721: the handler of a failed save: the recovery file is opened
\* (created), its content is built and written, and the failure is raised
\* again; an exception while building the content replaces it.
BackupAfterFailure(valid_deals) ==
    [exists |-> TRUE,
     content |-> IF BackupRaises(valid_deals) THEN <<>> ELSE BackupContent(valid_deals)]

ErrorAfterFailure(valid_deals) ==
    IF BackupRaises(valid_deals) THEN "AttributeError" ELSE "PersistenceFailed"

\* Variant: the insert is also tried when the upsert returned no rows.
InsertAttemptedOnNoData(upsert) == upsert \in {"raises", "nodata"}

\* Lines 693-698: the insert is tried when, and only when, the upsert raised.
InsertAttempted(upsert) == upsert = "raises"

\* The outcomes of one store call: rows returned, no rows returned, or an
\* exception.  A call that returns no rows may or may not have written.
StoreOutcomes == {"ok", "nodata", "raises"}

SaveRecord(valid_deals, wrote, st) ==
    [ids |-> [i \in 1..Len(valid_deals) |-> valid_deals[i].deal_id],
     wrote |-> wrote, rows |-> RowCount(st)]

\* Lines 632-721 and 745-746.
save_to_database ==
    /\ pc = "save"
    /\ LET valid_deals == ValidDeals(deals)
           deals_data  == RowsToWrite(deals)
       IN  IF valid_deals = <<>>
           THEN /\ calls' = Append(calls, "save")
                /\ UNCHANGED <<store, payloads, backup, error, saves>>
           ELSE \E upsert \in StoreOutcomes :
                  IF ~InsertAttempted(upsert)
                  THEN /\ \E written \in BOOLEAN :
                            store' = IF upsert = "ok" \/ written
                                     THEN UpsertRows(store, deals_data) ELSE store
                       /\ payloads' = Append(payloads, [op |-> "upsert", data |-> deals_data,
                                                        outcome |-> upsert])
                       /\ calls' = calls \o <<"save", "upsert">>
                       /\ saves' = Append(saves, SaveRecord(valid_deals, upsert = "ok", store'))
                       /\ UNCHANGED <<backup, error>>
                  ELSE \E insert \in StoreOutcomes :
                       /\ \E written \in BOOLEAN :
                            store' = IF insert = "ok" \/ (insert = "nodata" /\ written)
                                     THEN InsertRows(store, deals_data) ELSE store
                       /\ payloads' = payloads \o
                              << [op |-> "upsert", data |-> deals_data, outcome |-> upsert],
                                 [op |-> "insert", data |-> deals_data, outcome |-> insert] >>
                       /\ calls' = calls \o <<"save", "upsert", "insert">>
                       /\ saves' = Append(saves, SaveRecord(valid_deals, insert = "ok", store'))
                       /\ backup' = IF insert = "ok" THEN backup
                                    ELSE BackupAfterFailure(valid_deals)
                       /\ error' = IF insert = "ok" THEN "none"
                                   ELSE ErrorAfterFailure(valid_deals)
    /\ pc' = "driver_exit"
    /\ UNCHANGED <<page, pure, config, driver, quitCalls, debug, cookies, deals, cardErrors,
                   exit_status>>

\* Variant: quit() only on the normal path (no finally clause).
ShouldQuitOnSuccess(drv, err) == drv # "none" /\ err = "none"

\* Line 108: quit() is called when a driver exists.
ShouldQuit(drv, err) == drv # "none"

\* Lines 107-113: the finally clause of driver_context; an exception of
\* quit() itself is logged and dropped.
driver_context_exit ==
    /\ pc = "driver_exit"
    /\ quitCalls' = IF ShouldQuit(driver, error) THEN quitCalls + 1 ELSE quitCalls
    /\ calls' = IF ShouldQuit(driver, error) THEN Append(calls, "quit") ELSE calls
    /\ pc' = IF error = "none" THEN "main_exit" ELSE "run_except"
    /\ UNCHANGED <<page, pure, config, driver, error, debug, cookies, deals, cardErrors, store,
                   payloads, backup, exit_status, saves>>

\* Lines 750-752: the failure is logged and raised again.
run_except ==
    /\ pc = "run_except"
    /\ pc' = "main_exit"
    /\ UNCHANGED <<page, pure, config, driver, quitCalls, error, calls, debug, cookies, deals,
                   cardErrors, store, payloads, backup, exit_status, saves>>

\* Lines 765-770: exit(1) when the run raised, a normal end otherwise.
main_exit ==
    /\ pc = "main_exit"
    /\ exit_status' = IF error = "none" THEN 0 ELSE 1
    /\ pc' = "exited"
    /\ UNCHANGED <<page, pure, config, driver, quitCalls, error, calls, debug, cookies, deals,
                   cardErrors, store, payloads, backup, saves>>

Next ==
    \/ Main
    \/ setup_driver
    \/ load_cookies_from_secret
    \/ verify_authentication
    \/ accept_terms_if_prompted
    \/ extract_deals_data
    \/ save_to_database
    \/ driver_context_exit
    \/ run_except
    \/ main_exit

Spec == Init /\ [][Next]_vars

(***************************************************************************)
(* save_to_database applied again to the same list of deals (the pipeline  *)
(* run again on an unchanged listing).                                     *)
(***************************************************************************)
DealLists == {ExtractCards(p.first) : p \in Pages}

SaveCalls == Cardinality({i \in 1..Len(calls) : calls[i] = "save"})

InitPersist ==
    /\ pc = "save"
    /\ deals \in DealLists
    /\ store \in InitialStores
    /\ config = DefaultConfig
    /\ driver = "live"
    /\ quitCalls = 0
    /\ error = "none"
    /\ calls = <<>>
    /\ debug = <<>>
    /\ cookies = NoCookies
    /\ cardErrors = 0
    /\ payloads = <<>>
    /\ backup = NoBackup
    /\ exit_status = -1
    /\ saves = <<>>
    /\ page = NoPage
    /\ arg = "none"
    /\ result = "none"

\* Line 745 reached again with the same deals.
SaveAgain ==
    /\ pc = "driver_exit"
    /\ SaveCalls < MaxSaves
    /\ pc' = "save"
    /\ error' = "none"
    /\ UNCHANGED <<config, driver, quitCalls, calls, debug, cookies, deals, cardErrors,
                   store, payloads, backup, exit_status, saves, page, pure>>

NextPersist == save_to_database \/ SaveAgain

SpecPersist == InitPersist /\ [][NextPersist]_vars

(***************************************************************************)
(* Extraction and saving of one listing on their own: the listing the site *)
(* shows is fixed at the start.                                            *)
(***************************************************************************)
InitCards ==
    /\ pc = "extract"
    /\ config = DefaultConfig
    /\ driver = "live"
    /\ quitCalls = 0
    /\ error = "none"
    /\ calls = <<>>
    /\ debug = <<>>
    /\ cookies = NoCookies
    /\ deals = <<>>
    /\ cardErrors = 0
    /\ store = EmptyStore
    /\ payloads = <<>>
    /\ backup = NoBackup
    /\ exit_status = -1
    /\ saves = <<>>
    /\ page \in ListingPages
    /\ arg = "none"
    /\ result = "none"

NextCards == extract_deals_data \/ save_to_database

SpecCards == InitCards /\ [][NextCards]_vars

(***************************************************************************)
(* The amount parsers applied to one label on their own.                   *)
(***************************************************************************)
Alphabet == {"0", "1", ".", ",", "$", " ", "(", "-"}

AmountTexts == SeqsUpTo(Alphabet, MaxTextLen) \cup {TxtDollar, TxtParen, Txt500}

AmountNodes == {TextNode(t) : t \in AmountTexts} \cup {NoLabel, NoSibling, TagNode}

MoneyFields == {"purchase_price", "principal_amount", "receivables_purchased_amount",
                "current_balance", "rtr_balance"}

\* Lines 435-498: the amount stored for a monetary field whose label is
\* followed by node, every other label of the card being absent.
AmountField(field, node) ==
    CASE field = "purchase_price" ->
            LET r == PlainAmount(node)
            IN  [raised |-> r.raised, val |-> IF r.ok THEN r.val ELSE Zero]
      [] field = "principal_amount" ->
            LET r == PlainAmount(node)
            IN  [raised |-> r.raised, val |-> IF r.ok THEN r.val ELSE Zero]
      [] field = "receivables_purchased_amount" ->
            LET r == ParenAmount(node)
            IN  [raised |-> r.raised, val |-> IF r.ok THEN r.val ELSE Zero]
      [] field = "current_balance" -> BalanceAmount(node, NoLabel)
      [] field = "rtr_balance" -> BalanceAmount(NoLabel, node)

Idle ==
    /\ config = DefaultConfig
    /\ driver = "none"
    /\ quitCalls = 0
    /\ error = "none"
    /\ calls = <<>>
    /\ debug = <<>>
    /\ cookies = NoCookies
    /\ deals = <<>>
    /\ cardErrors = 0
    /\ store = EmptyStore
    /\ payloads = <<>>
    /\ backup = NoBackup
    /\ exit_status = -1
    /\ saves = <<>>
    /\ page = NoPage

InitParse ==
    /\ Idle
    /\ pc = "parse"
    /\ arg \in [field : MoneyFields, node : AmountNodes]
    /\ result = "none"

parse_amount ==
    /\ pc = "parse"
    /\ result' = AmountField(arg.field, arg.node)
    /\ pc' = "parsed"
    /\ UNCHANGED <<config, driver, quitCalls, error, calls, debug, cookies, deals,
                   cardErrors, store, payloads, backup, exit_status, saves, page, arg>>

SpecParse == InitParse /\ [][parse_amount]_vars

(***************************************************************************)
(* retry_on_failure (lines 271-281) applied to an operation whose outcome  *)
(* at each invocation is fixed at the start.                               *)
(***************************************************************************)
\* Line 279: the time slept after the failure of the given attempt
\* (attempts are counted from 0).
RetrySleep(retry_delay, attempt) == retry_delay * (attempt + 1)

\* outcomes[i] says whether the i-th invocation of func returns.
RetryInputs ==
    [max_retries : 0..MaxRetries, retry_delay : 1..MaxDelay,
     outcomes : [1..MaxRetries -> BOOLEAN]]

InitRetry ==
    /\ Idle
    /\ pc = "retry"
    /\ arg \in RetryInputs
    /\ result = [attempt |-> 0, invoked |-> 0, sleeps |-> <<>>, outcome |-> "running"]

\* Lines 273-281: one turn of the loop: func is invoked; its value is
\* returned, or its failure is logged and followed by a sleep, or, at the
\* last attempt, raised again.
retry_attempt ==
    /\ pc = "retry"
    /\ result.attempt < arg.max_retries
    /\ LET attempt == result.attempt
           returns == arg.outcomes[attempt + 1]
       IN  IF returns
           THEN /\ result' = [result EXCEPT !.invoked = @ + 1, !.outcome = "returned"]
                /\ pc' = "retried"
           ELSE IF attempt < arg.max_retries - 1
           THEN /\ result' = [result EXCEPT
                                 !.invoked = @ + 1,
                                 !.attempt = @ + 1,
                                 !.sleeps = Append(@, RetrySleep(arg.retry_delay, attempt))]
                /\ pc' = "retry"
           ELSE /\ result' = [result EXCEPT !.invoked = @ + 1, !.outcome = "raised"]
                /\ pc' = "retried"
    /\ UNCHANGED <<config, driver, quitCalls, error, calls, debug, cookies, deals,
                   cardErrors, store, payloads, backup, exit_status, saves, page, arg>>

\* Line 273 with max_retries = 0: the loop body never runs and the
\* function returns None.
retry_no_attempt ==
    /\ pc = "retry"
    /\ result.attempt >= arg.max_retries
    /\ result' = [result EXCEPT !.outcome = "none"]
    /\ pc' = "retried"
    /\ UNCHANGED <<config, driver, quitCalls, error, calls, debug, cookies, deals,
                   cardErrors, store, payloads, backup, exit_status, saves, page, arg>>

NextRetry == retry_attempt \/ retry_no_attempt

SpecRetry == InitRetry /\ [][NextRetry]_vars

(***************************************************************************)
(* The pagination controller's total_pages().  The scraper under           *)
(* src/scripts only looks the summary up and logs it (lines 349-353); the  *)
(* function is modelled from its description in the design document:       *)
(* find "(a - b of N)" in the summary text, return ceil(N / pageSize), and *)
(* return 1 when there is no summary or it does not have that form.        *)
(***************************************************************************)
DigitChar(d) == CHOOSE c \in Digits : DigitVal(c) = d

\* str(n) for a natural number.
RECURSIVE ToText(_)
ToText(n) == IF n < 10 THEN <<DigitChar(n)>> ELSE Append(ToText(n \div 10), DigitChar(n % 10))

\* The text p stands in s at position i.
TextAt(s, i, p) == i >= 1 /\ i + Len(p) - 1 <= Len(s) /\ SubSeq(s, i, i + Len(p) - 1) = p

\* The number of digits of s from position i on.
RECURSIVE DigitRun(_, _)
DigitRun(s, i) == IF i <= Len(s) /\ s[i] \in Digits THEN 1 + DigitRun(s, i + 1) ELSE 0

\* The pattern "(" digits " - " digits " of " digits ")" read from position
\* i of s; total is the third number.
SummaryAt(s, i) ==
    LET la == DigitRun(s, i + 1)
        p1 == i + 1 + la
        lb == DigitRun(s, p1 + 3)
        p2 == p1 + 3 + lb
        ln == DigitRun(s, p2 + 4)
        p3 == p2 + 4 + ln
    IN  [ok |-> /\ TextAt(s, i, <<"(">>) /\ la > 0
                /\ TextAt(s, p1, <<" ", "-", " ">>) /\ lb > 0
                /\ TextAt(s, p2, <<" ", "o", "f", " ">>) /\ ln > 0
                /\ TextAt(s, p3, <<")">>),
         from |-> p2 + 4, to |-> p3 - 1]

NoSummary == [kind |-> "none", text |-> <<>>]

\* Variant: the quotient is rounded down.
FloorDiv(n, size) == n \div size

CeilDiv(n, size) == (n + size - 1) \div size

total_pages(summary, pageSize) ==
    IF summary.kind # "text" THEN 1
    ELSE LET s == summary.text
             found == {i \in 1..Len(s) : SummaryAt(s, i).ok}
         IN  IF found = {} THEN 1
             ELSE LET first == CHOOSE i \in found : \A j \in found : i <= j
                      m == SummaryAt(s, first)
                  IN  CeilDiv(DigitsValue(SubSeq(s, m.from, m.to), 0), pageSize)

Min(a, b) == IF a < b THEN a ELSE b

\* The summary the page shows for total records and the given page size:
\* well formed, absent, or damaged in one of several ways.
SummaryShapes == {"ok", "missing", "empty", "noparen", "nototal", "cut", "words"}

SummaryText(total, pageSize, shape) ==
    LET a == ToText(IF total = 0 THEN 0 ELSE 1)
        b == ToText(Min(pageSize, total))
        n == ToText(total)
        dash == <<" ", "-", " ">>
        of == <<" ", "o", "f", " ">>
    IN  CASE shape = "ok" -> TextNode(<<"(">> \o a \o dash \o b \o of \o n \o <<")">>)
          [] shape = "missing" -> NoSummary
          [] shape = "empty" -> TextNode(<<>>)
          [] shape = "noparen" -> TextNode(a \o dash \o b \o of \o n)
          [] shape = "nototal" -> TextNode(<<"(">> \o a \o dash \o b \o of \o <<")">>)
          [] shape = "cut" -> TextNode(<<"(">> \o a \o dash \o b \o <<" ", "o">>)
          [] shape = "words" -> TextNode(n \o <<" ", "d", "e", "a", "l", "s">>)

InitPages ==
    /\ Idle
    /\ pc = "paginate"
    /\ arg \in [total : 0..MaxTotal, pageSize : 1..MaxPageSize, shape : SummaryShapes]
    /\ result = "none"

paginate ==
    /\ pc = "paginate"
    /\ LET summary == SummaryText(arg.total, arg.pageSize, arg.shape)
       IN  result' = [summary |-> summary, pages |-> total_pages(summary, arg.pageSize)]
    /\ pc' = "paginated"
    /\ UNCHANGED <<config, driver, quitCalls, error, calls, debug, cookies, deals,
                   cardErrors, store, payloads, backup, exit_status, saves, page, arg>>

SpecPages == InitPages /\ [][paginate]_vars

(***************************************************************************)
(* validate_deal_data applied to one deal on its own.                      *)
(***************************************************************************)
Amount500 == [n |-> 500, d |-> 1]
AmountMinus5 == [n |-> -5, d |-> 1]
IdLOAN2 == MakeDealId(<<"L", "O", "A", "N">>, <<"2">>)
IdMCA1 == MakeDealId(<<"M", "C", "A">>, <<"1">>)

SampleDeals ==
    [deal_id : {<<>>, IdMCA1, IdLOAN2},
     dba : {<<>>, TxtName},
     owner : {<<>>, TxtName},
     deal_type : {<<"L", "O", "A", "N">>},
     purchase_price : {Zero, Amount500, AmountMinus5},
     principal_amount : {Zero, Amount500, AmountMinus5},
     receivables_purchased_amount : {Zero},
     current_balance : {Zero, AmountMinus5}]

InitValidate ==
    /\ Idle
    /\ pc = "validate"
    /\ arg \in SampleDeals
    /\ result = "none"

validate ==
    /\ pc = "validate"
    /\ result' = validate_deal_data(arg)
    /\ pc' = "validated"
    /\ UNCHANGED <<config, driver, quitCalls, error, calls, debug, cookies, deals,
                   cardErrors, store, payloads, backup, exit_status, saves, page, arg>>

SpecValidate == InitValidate /\ [][validate]_vars

(***************************************************************************)
(* Properties.                                                             *)
(***************************************************************************)
Happened(e) == \E i \in 1..Len(calls) : calls[i] = e
Before(a, b) == \A i \in 1..Len(calls) : calls[i] = b => \E j \in 1..(i - 1) : calls[j] = a
RunLeftDriverContext == pc \in {"run_except", "main_exit", "exited"}
FilesOf(ext) == {i \in 1..Len(debug) : debug[i].ext = ext}

\* C1: once run_daily_extraction has left the driver context (it is about to
\* return or to raise), a driver that was created has had quit() called on it
\* exactly once, whatever the exit path was.
C1_QuitOnEveryExit ==
    (RunLeftDriverContext /\ driver = "live") =>
        (quitCalls = 1 /\ calls[Len(calls)] = "quit")

\* C1 witness: the run ended on a failed save and the driver was quit.
C1_Witness ==
    /\ pc = "exited"
    /\ driver = "live"
    /\ Happened("insert")
    /\ error # "none"
    /\ quitCalls = 1

\* C2: extraction is only ever reached after a successful verification and
\* persistence only after extraction; a run whose verification failed has
\* attempted neither and ends raising the authentication failure.
C2_AuthGate ==
    /\ Before("verify_ok", "extract")
    /\ Before("extract", "save")
    /\ (Happened("verify_fail") \/ Happened("verify_error")) =>
          /\ ~Happened("extract") /\ ~Happened("save")
          /\ ~Happened("upsert") /\ ~Happened("insert")
          /\ error = "AuthenticationFailed"
          /\ pc = "exited" => exit_status = 1

\* C2 witness: a run that ended after no indicator matched.
C2_Witness ==
    /\ pc = "exited"
    /\ Happened("verify_fail")
    /\ error = "AuthenticationFailed"

C4_Idempotent ==
    \A i \in 1..(Len(saves) - 1) :
        saves[i].wrote => saves[i + 1].rows = saves[i].rows

\* The upsert raised and the insert raised or returned no rows.
BothFailed ==
    /\ Len(payloads) = 2
    /\ payloads[1].outcome = "raises"
    /\ payloads[2].outcome # "ok"

\* C5: when the upsert and the insert both failed, the recovery file holds
\* every validated deal and the failure that reaches the caller is the
\* persistence failure; the recovery file exists in no other case.
C5_RecoveryFile ==
    /\ BothFailed =>
          /\ backup.exists
          /\ Len(backup.content) = Len(ValidDeals(deals))
          /\ \A i \in 1..Len(backup.content) :
                backup.content[i].deal_id = ValidDeals(deals)[i].deal_id
          /\ error = "PersistenceFailed"
    /\ backup.exists => BothFailed

StoreFailed == \E i \in 1..Len(payloads) : payloads[i].op = "insert" /\ payloads[i].outcome # "ok"
Accepted == {i \in 1..Len(deals) : validate_deal_data(deals[i])}

\* C8: after save_to_database, the rows handed to the store are the rows of
\* the deals that pass validation, all of them and no others, in every store
\* call; with no valid deal the store is not called; and the run fails only
\* when a store call failed.
C8_OnlyValidWritten ==
    Happened("save") =>
        /\ \A k \in 1..Len(payloads) :
              /\ Len(payloads[k].data) = Cardinality(Accepted)
              /\ \A i \in Accepted :
                    \E r \in 1..Len(payloads[k].data) :
                        payloads[k].data[r] = DealDict(deals[i])
              /\ \A r \in 1..Len(payloads[k].data) :
                    \E i \in Accepted : payloads[k].data[r] = DealDict(deals[i])
        /\ (Accepted # {}) <=> (payloads # <<>>)
        /\ error # "none" => StoreFailed

\* C8 witness: a save that handed over some deals and held back a rejected one.
C8_Witness ==
    /\ Happened("save")
    /\ payloads # <<>>
    /\ payloads[1].outcome = "ok"
    /\ Cardinality(Accepted) < Len(deals)
    /\ error = "none"

\* C9: the records of a run that reach persistence (the validated rows handed
\* to the store) have non-empty ids, and no two of them have the same id.
C9_UniqueIds ==
    \A k \in 1..Len(payloads) :
        \A i \in 1..Len(payloads[k].data) :
            /\ payloads[k].data[i].deal_id # <<>>
            /\ \A j \in 1..Len(payloads[k].data) :
                  i # j => payloads[k].data[i].deal_id # payloads[k].data[j].deal_id

\* C7 as stated: a deal is accepted exactly when its id is not empty and one
\* of purchase_price and principal_amount is positive, whatever its other
\* fields are.
C7_AcceptIffIdAndAmount ==
    pc = "validated" =>
        (result <=> (/\ arg.deal_id # <<>>
                     /\ (arg.purchase_price.n > 0 \/ arg.principal_amount.n > 0)))

\* C7 amended: a deal is accepted exactly when its id and its dba are not
\* empty and one of purchase_price and principal_amount is positive; the
\* remaining fields do not matter.
C7_AcceptIffIdDbaAndAmount ==
    pc = "validated" =>
        (result <=> (/\ arg.deal_id # <<>>
                     /\ arg.dba # <<>>
                     /\ (arg.purchase_price.n > 0 \/ arg.principal_amount.n > 0)))

\* C7 witness: LOAN_2 with principal_amount 500.0, no purchase price and a
\* dba is accepted.
C7_Witness ==
    /\ pc = "validated"
    /\ arg.deal_id = IdLOAN2
    /\ arg.principal_amount = Amount500
    /\ arg.purchase_price = Zero
    /\ arg.dba # <<>>
    /\ result = TRUE

\* The amount C10 describes: the trailing parenthetical dropped, every
\* character but digits and the decimal point removed, 0.0 when what is left
\* is empty or is no number.
ClaimedAmount(node) ==
    IF node.kind # "text" THEN Zero
    ELSE LET kept == SelectSeq(Split(node.text, <<"(">>)[1],
                               LAMBDA c : c \in Digits \cup {"."})
         IN  IF IsUnsignedDecimal(kept) THEN UnsignedValue(kept) ELSE Zero

\* C10: for every monetary field and every text that follows its label,
\* parsing does not raise and yields the amount made of the digits and the
\* decimal point of the text ("$400,000.00" yields 400000.00).
C10_MoneyParse ==
    (pc = "parsed" /\ arg.node.kind = "text") =>
        (~result.raised /\ result.val = ClaimedAmount(arg.node))

(***************************************************************************)
(* Properties of the listing taken on its own (SpecCards).                 *)
(***************************************************************************)
Extracted == pc # "extract" /\ page # NoPage

\* The link text reads TYPE # NUMBER with TYPE one of the deal types.
IdentifyingLink(card) ==
    /\ card.customer = "link"
    /\ Len(DealParts(card)) = 2
    /\ Strip(DealParts(card)[1]) \in DealTypes
    /\ Strip(DealParts(card)[2]) # <<>>

LinkId(card) == MakeDealId(Strip(DealParts(card)[1]), Strip(DealParts(card)[2]))

\* C11: every extracted record has the id TYPE_NUMBER of a card of the page
\* whose link reads TYPE # NUMBER with TYPE one of the deal types; a card
\* without such a link gives no record and no error; and the record of
\* every other card is in the extracted list whatever the cards around it.
C11_IdFromIdentifyingLink ==
    Extracted =>
        LET cards == CardsToParse(page)
        IN  /\ \A j \in 1..Len(deals) :
                  \E i \in 1..Len(cards) :
                      /\ IdentifyingLink(cards[i])
                      /\ deals[j].deal_id = LinkId(cards[i])
            /\ \A i \in 1..Len(cards) :
                  /\ ~IdentifyingLink(cards[i]) =>
                        /\ ExtractCard(cards[i]).deal = <<>>
                        /\ ~ExtractCard(cards[i]).error
                  /\ ExtractCard(cards[i]).deal # <<>> =>
                        \E j \in 1..Len(deals) : deals[j] = ExtractCard(cards[i]).deal[1]

(***************************************************************************)
(* Properties of the session cookies (Spec).                               *)
(***************************************************************************)
VerificationAttempted ==
    \/ Happened("get_list") \/ Happened("verify_ok")
    \/ Happened("verify_fail") \/ Happened("verify_error")

\* C12: when the session blob is missing, malformed or truncated, the
\* browser is never sent to the site, no cookie is offered or applied, the
\* authentication is never verified, and the run ends with the cookie
\* loading failure and exit status 1.
C12_BadBlobAborts ==
    cookies.blob \in BadBlobs =>
        /\ ~Happened("get_home")
        /\ cookies.offered = <<>> /\ cookies.jar = <<>> /\ cookies.applied = 0
        /\ ~VerificationAttempted
        /\ ~Happened("get_all")
        /\ error = "CookieLoadFailed"
        /\ pc \in {"driver_exit", "run_except", "main_exit", "exited"}
        /\ pc = "exited" => exit_status = 1

C12_Witness == cookies.blob = "truncated" /\ pc = "exited" /\ exit_status = 1

\* C13: once the cookies were loaded, every cookie of the decoded session
\* was offered to the driver once and in order, the counter of applied
\* cookies is the number of cookies the browser took, and the run was not
\* failed by the cookie loading, however many cookies were rejected.
C13_EveryCookieOffered ==
    Happened("load_cookies_ok") =>
        /\ cookies.offered = cookies.session
        /\ cookies.applied = Len(cookies.jar)
        /\ \A k \in 1..Len(cookies.jar) :
              \E i \in 1..Len(cookies.session) : cookies.jar[k] = cookies.session[i]
        /\ error # "CookieLoadFailed"
        /\ pc # "load_cookies"
        /\ pc \notin {"verify", "accept_terms", "extract", "save"} => VerificationAttempted

C13_Witness ==
    /\ Happened("load_cookies_ok")
    /\ Len(cookies.session) = 2
    /\ cookies.jar = <<cookies.session[2]>>
    /\ cookies.applied = 1
    /\ pc = "exited" /\ exit_status = 0

(***************************************************************************)
(* Properties of retry_on_failure (SpecRetry).                             *)
(***************************************************************************)
RECURSIVE Pow2(_)
Pow2(k) == IF k = 0 THEN 1 ELSE 2 * Pow2(k - 1)

Retrying == pc \in {"retry", "retried"}

\* C14: func is invoked at most max_retries times; a value is returned at
\* the first invocation that succeeds and nothing is invoked after it; the
\* sleep before retry k is retry_delay * 2^(k-1); and the failure is raised
\* only when max_retries invocations have all failed.
C14_RetryBackoff ==
    Retrying =>
        /\ result.invoked <= arg.max_retries
        /\ \A k \in 1..Len(result.sleeps) :
              result.sleeps[k] = arg.retry_delay * Pow2(k - 1)
        /\ \A i \in 1..(result.invoked - 1) : ~arg.outcomes[i]
        /\ result.outcome = "returned" => arg.outcomes[result.invoked]
        /\ result.outcome = "raised" =>
              /\ result.invoked = arg.max_retries
              /\ ~arg.outcomes[result.invoked]

(***************************************************************************)
(* Properties of the exit status (Spec).                                   *)
(***************************************************************************)
\* The run ended in one of the fatal categories: the session could not be
\* loaded, the authentication failed, the wait for the listing timed out,
\* or the store took neither the upsert nor the insert.  A scraper that
\* could not be built (no store credentials, no browser) is counted as
\* fatal as well.
FatalCategory ==
    \/ error \in {"ValueError", "WebDriverException"}
    \/ error = "CookieLoadFailed"
    \/ error = "AuthenticationFailed"
    \/ Happened("wait_timeout")
    \/ BothFailed

\* C15: the process ends with a non-zero exit status exactly when the run
\* ended in a fatal category; card errors, rejected records and the like
\* never give a non-zero status and a fatal condition never gives zero.
C15_ExitStatus ==
    pc = "exited" => (exit_status # 0 <=> FatalCategory)

(***************************************************************************)
(* Properties of total_pages() (SpecPages).                                *)
(***************************************************************************)
Txt53of53 == <<"(", "1", " ", "-", " ", "5", "3", " ", "o", "f", " ", "5", "3", ")">>
Txt53of107 == <<"(", "1", " ", "-", " ", "5", "3", " ", "o", "f", " ", "1", "0", "7", ")">>

\* C16: for a summary "(a - b of N)" the result is the least number of
\* pages of pageSize records that hold N records; with page size 53 it is
\* 1 for "(1 - 53 of 53)" and 3 for "(1 - 53 of 107)"; and it is 1 when the
\* summary is missing or does not have that form.
C16_TotalPages ==
    pc = "paginated" =>
        /\ arg.shape = "ok" =>
              /\ result.pages * arg.pageSize >= arg.total
              /\ (result.pages - 1) * arg.pageSize < arg.total
        /\ arg.shape # "ok" => result.pages = 1
        /\ (result.summary = TextNode(Txt53of53) /\ arg.pageSize = 53) => result.pages = 1
        /\ (result.summary = TextNode(Txt53of107) /\ arg.pageSize = 53) => result.pages = 3

C16_Witness ==
    /\ pc = "paginated"
    /\ result.summary = TextNode(Txt53of107)
    /\ arg.pageSize = 53
    /\ result.pages = 3

(***************************************************************************)
(* Properties of the amounts that reach the store (SpecCards).             *)
(***************************************************************************)
NonNegative(v) == v.n >= 0

\* C17: in every row the store has taken, purchase_price, principal_amount,
\* receivables_purchased_amount and current_balance are not negative,
\* whatever the texts after the labels of the card were.
C17_AmountsNonNegative ==
    \A k \in 1..Len(payloads) :
        payloads[k].outcome = "ok" =>
            \A i \in 1..Len(payloads[k].data) :
                /\ NonNegative(payloads[k].data[i].purchase_price)
                /\ NonNegative(payloads[k].data[i].principal_amount)
                /\ NonNegative(payloads[k].data[i].receivables_purchased_amount)
                /\ NonNegative(payloads[k].data[i].current_balance)

(***************************************************************************)
(* Properties of the "All" control (SpecCards).                            *)
(***************************************************************************)
Times(e) == Cardinality({i \in 1..Len(calls) : calls[i] = e})

\* C18: the "All" control is looked for at most once in an extraction, and
\* only when the first parse found exactly 25 cards; and when it is absent
\* or the click on it fails, the extraction still ends normally with the
\* records of all the cards the listing holds, those beyond the first 25
\* included.
C18_LoadAllFallback ==
    (Extracted /\ ~Happened("save")) =>
        /\ Times("find_all") <= 1
        /\ Times("click_all") <= 1
        /\ Happened("find_all") => Len(page.first) = LoadAllTrigger
        /\ (Len(page.first) = LoadAllTrigger /\ page.button \in {"absent", "fails"}) =>
              /\ error = "none"
              /\ deals = ExtractCards(page.all)

(***************************************************************************)
(* Properties of the per-card error handler (SpecCards).                   *)
(***************************************************************************)
\* C19: a card whose processing ran into the per-card handler adds no
\* record to the list, a card that adds a record did not run into the
\* handler, so no card counts both as a record and as an error; and the
\* record of every card that gives one is in the list, whatever happened to
\* the cards before it.
C19_ErrorCardsSkipped ==
    Extracted =>
        LET cards == CardsToParse(page)
        IN  /\ \A i \in 1..Len(cards) :
                  /\ ExtractCard(cards[i]).error => ExtractCard(cards[i]).deal = <<>>
                  /\ ExtractCard(cards[i]).deal # <<>> =>
                        \E j \in 1..Len(deals) : deals[j] = ExtractCard(cards[i]).deal[1]
            /\ Len(deals) + cardErrors <= Len(cards)

(***************************************************************************)
(* Properties of a run that returns normally (Spec).                       *)
(***************************************************************************)
ReturnedNormally == pc \in {"main_exit", "exited"} /\ error = "none"

\* C20: when run_daily_extraction has returned without raising and the
\* extraction gave at least one valid deal, a store call that took the rows
\* of the valid deals has succeeded: the run never returns normally after a
\* write that reported no data or failed.
C20_ValidDealsWritten ==
    (ReturnedNormally /\ Accepted # {}) =>
        /\ \E k \in 1..Len(payloads) :
              /\ payloads[k].outcome = "ok"
              /\ payloads[k].data = RowsToWrite(deals)
        /\ payloads[Len(payloads)].outcome = "ok"

====
